---- MODULE Spec2Model ----
(***************************************************************************)
(* Transaction classification and aggregation engine of MyFinances:        *)
(* internal-transfer pairing (src/src/utils/transactionFilters.js), the    *)
(* rule-based classifier and the manual-tag override resolver              *)
(* (transactionTags.js, kept as src/unnamed/part_000).                     *)
(*                                                                         *)
(* Representation of JavaScript values:                                    *)
(*  - a text field is a tuple of one-character strings; Undefined stands   *)
(*    for a missing field (undefined/null) and NumberValue for a field     *)
(*    holding a number, on which .toLowerCase is not callable;             *)
(*  - Transaction_ID and Debit_Credit are compared with === only and are   *)
(*    atomic strings, "undefined" when missing;                            *)
(*  - Timestamp is <<ms>> when new Date(Timestamp) is a valid date with    *)
(*    that epoch value and <<>> when it is an Invalid Date (NaN);          *)
(*  - Amount is <<n>> for the number n and <<>> when missing;              *)
(*  - CustomTags is [present, type]: present = FALSE when the field is     *)
(*    missing, type = "undefined" when the object has no type key.         *)
(***************************************************************************)
EXTENDS Integers, Sequences, FiniteSets, TLC

VARIABLES
  transactions,   \* the batch handed to the engine (allTransactions)
  localStorage,   \* parsed localStorage['customTransactionTags']: id -> type
  sortedTransactions, \* what [...transactions].sort(comparator) yields in this
                  \* engine: the sorted sequence of indices in transactions
  apiSync,        \* per id, the state of the background setTransactionTag
                  \* call of updateTransactionType: "none", "pending",
                  \* "failed" or "synced"
  called,         \* name of the engine function called last ("none" at start)
  arg,            \* index in transactions of its transaction argument (0: none)
  returned        \* what that call returned

vars == <<transactions, localStorage, sortedTransactions, apiSync, called, arg, returned>>

----------------------------------------------------------------------------
(* Text values and String.prototype methods *)

Undefined == <<"undefined">>
NumberValue == <<"number">>
EmptyString == <<>>

UpperChars == <<"A","B","C","D","E","F","G","H","I","J","K","L","M","N","O","P","Q","R","S","T","U","V","W","X","Y","Z">>
LowerChars == <<"a","b","c","d","e","f","g","h","i","j","k","l","m","n","o","p","q","r","s","t","u","v","w","x","y","z">>

LowerOf == [k \in DOMAIN UpperChars |-> LowerChars[k]]

UpperIndex == [c \in {UpperChars[k] : k \in DOMAIN UpperChars} |->
                 CHOOSE k \in DOMAIN UpperChars : UpperChars[k] = c]

LowerChar(c) == IF c \in DOMAIN UpperIndex THEN LowerOf[UpperIndex[c]] ELSE c

toLowerCase(s) == [k \in DOMAIN s |-> LowerChar(s[k])]

UpperChar(c) ==
  IF \E k \in DOMAIN LowerChars : LowerChars[k] = c
  THEN UpperChars[CHOOSE k \in DOMAIN LowerChars : LowerChars[k] = c]
  ELSE c

toUpperCase(s) == [k \in DOMAIN s |-> UpperChar(s[k])]

RECURSIVE trimStart(_)
trimStart(s) == IF s # <<>> /\ Head(s) = " " THEN trimStart(Tail(s)) ELSE s

RECURSIVE trimEnd(_)
trimEnd(s) ==
  IF s # <<>> /\ s[Len(s)] = " " THEN trimEnd(SubSeq(s, 1, Len(s) - 1)) ELSE s

trim(s) == trimEnd(trimStart(s))

includes(s, pattern) ==
  \E k \in 1..(Len(s) - Len(pattern) + 1) :
    \A m \in DOMAIN pattern : s[k + m - 1] = pattern[m]

\* patterns.some(p => s.includes(p))
someIncluded(patterns, s) == \E k \in DOMAIN patterns : includes(s, patterns[k])

\* v?.toLowerCase is not a function
NotCallable(v) == v = NumberValue

\* v?.toLowerCase() || ''
LowerOrEmpty(v) == IF v = Undefined THEN EmptyString ELSE toLowerCase(v)

\* v?.toLowerCase()?.trim() || ''
LowerTrimOrEmpty(v) == IF v = Undefined THEN EmptyString ELSE trim(toLowerCase(v))

----------------------------------------------------------------------------
(* Keyword tables of the heuristics *)

userBanks ==
  << <<"a","x","i","s"," ","b","a","n","k">>,
     <<"h","d","f","c"," ","b","a","n","k">>,
     <<"h","s","b","c">>,
     <<"i","c","i","c","i"," ","b","a","n","k">>,
     <<"i","d","f","c"," ","f","i","r","s","t"," ","b","a","n","k">> >>

transferIndicators ==
  << <<"t","r","a","n","s","f","e","r">>,
     <<"c","r","e","d","i","t","e","d">>,
     <<"d","e","b","i","t","e","d">>,
     <<"a","c","c","o","u","n","t">>,
     <<"b","a","l","a","n","c","e">> >>

genericTransferMerchants ==
  << <<"c","r","e","d","i","t">>,
     <<"d","e","b","i","t">>,
     <<"t","r","a","n","s","f","e","r">>,
     <<"m","u","b","a","r","a","k"," ","m">> >>

internalTransferWords ==
  << <<"c","r","e","d","i","t","e","d"," ","t","o">>,
     <<"d","e","b","i","t","e","d"," ","f","r","o","m">>,
     <<"t","r","a","n","s","f","e","r"," ","t","o">>,
     <<"t","r","a","n","s","f","e","r"," ","f","r","o","m">> >>

transferPatterns ==
  << <<"c","r","e","d","i","t"," ","c","a","r","d"," ","p","a","y","m","e","n","t">>,
     <<"c","c"," ","p","a","y","m","e","n","t">>,
     <<"c","a","r","d"," ","p","a","y","m","e","n","t">>,
     <<"p","a","y","m","e","n","t"," ","t","o"," ","c","r","e","d","i","t"," ","c","a","r","d">>,
     <<"c","r","e","d","i","t"," ","c","a","r","d"," ","b","i","l","l">>,
     <<"c","c"," ","p","a","y","m","e","n","t"," ","t","o"," ","x","x">>,
     <<"a","u","t","o"," ","t","r","a","n","s","f","e","r">>,
     <<"s","c","h","e","d","u","l","e","d"," ","t","r","a","n","s","f","e","r">> >>

creditCardIndicators ==
  << <<"c","r","e","d","i","t"," ","c","a","r","d">>,
     <<"c","a","r","d"," ","e","n","d","i","n","g"," ","w","i","t","h">>,
     <<"a","v","a","i","l","a","b","l","e"," ","l","i","m","i","t">>,
     <<"p","a","y","m","e","n","t"," ","r","e","c","e","i","v","e","d"," ","t","o","w","a","r","d","s"," ","y","o","u","r"," ","c","r","e","d","i","t"," ","c","a","r","d">>,
     <<"p","a","y","m","e","n","t"," ","o","f"," ","r","s">>,
     <<"c","a","r","d","m","e","m","b","e","r">> >>

transferCategories ==
  << <<"c","r","e","d","i","t"," ","c","a","r","d"," ","p","a","y","m","e","n","t">>,
     <<"l","o","a","n"," ","p","a","y","m","e","n","t">>,
     <<"i","n","v","e","s","t","m","e","n","t"," ","t","r","a","n","s","f","e","r">> >>

billPatterns ==
  << <<"e","l","e","c","t","r","i","c","i","t","y">>,
     <<"g","a","s">>,
     <<"w","a","t","e","r">>,
     <<"i","n","t","e","r","n","e","t">>,
     <<"m","o","b","i","l","e">>,
     <<"p","h","o","n","e">>,
     <<"i","n","s","u","r","a","n","c","e">>,
     <<"p","r","e","m","i","u","m">>,
     <<"u","t","i","l","i","t","y">>,
     <<"b","i","l","l">>,
     <<"r","e","c","h","a","r","g","e">>,
     <<"r","e","l","i","a","n","c","e"," ","j","i","o">>,
     <<"a","i","r","t","e","l">>,
     <<"v","o","d","a","f","o","n","e">>,
     <<"b","s","n","l">>,
     <<"e","l","e","c","t","r","i","c","i","t","y"," ","b","o","a","r","d">>,
     <<"b","e","s","c","o","m">>,
     <<"k","s","e","b">>,
     <<"m","s","e","b">>,
     <<"c","r","e","d","i","t"," ","c","a","r","d"," ","p","a","y","m","e","n","t">>,
     <<"l","o","a","n"," ","p","a","y","m","e","n","t">>,
     <<"e","m","i"," ","p","a","y","m","e","n","t">>,
     <<"c","c"," ","p","a","y","m","e","n","t">>,
     <<"c","a","r","d"," ","p","a","y","m","e","n","t">> >>

StrDebit == <<"d","e","b","i","t">>
StrCreditCard == <<"c","r","e","d","i","t"," ","c","a","r","d">>
StrPaymentReceived == <<"p","a","y","m","e","n","t"," ","r","e","c","e","i","v","e","d">>

----------------------------------------------------------------------------
(* Matcher: findInternalTransferPairs and isPotentialTransferPair *)

timeWindowMs == 10 * 60 * 1000

\* The window the documentation gives for internal transfer detection
documentedTimeWindowMs == 5 * 60 * 1000

\* new Date(ts) is a valid date
ValidDate(ts) == ts # <<>>

\* Math.abs(amount): NaN for a missing amount
MathAbs(amount) ==
  IF amount = <<>> THEN <<>>
  ELSE IF amount[1] < 0 THEN <<0 - amount[1]>> ELSE amount

\* amount1 !== amount2 on the results of Math.abs: NaN differs from everything
AmountsDiffer(tx1, tx2) ==
  \/ MathAbs(tx1.Amount) = <<>>
  \/ MathAbs(tx2.Amount) = <<>>
  \/ MathAbs(tx1.Amount) # MathAbs(tx2.Amount)

\* tx1.Transaction_ID && tx2.Transaction_ID && tx1.Transaction_ID === tx2.Transaction_ID
SameTruthyId(tx1, tx2) ==
  /\ tx1.Transaction_ID # "undefined"
  /\ tx2.Transaction_ID # "undefined"
  /\ tx1.Transaction_ID = tx2.Transaction_ID

isUserBank(bank) ==
  \E k \in DOMAIN userBanks : userBanks[k] = LowerTrimOrEmpty(bank)

hasTransferIndicator(raw) == someIncluded(transferIndicators, LowerOrEmpty(raw))

hasGenericMerchant(merchant) ==
  someIncluded(genericTransferMerchants, LowerOrEmpty(merchant))

\* isPotentialTransferPair(tx1, tx2) raises a TypeError
isPotentialTransferPairThrows(tx1, tx2) ==
  /\ tx1.Debit_Credit # tx2.Debit_Credit
  /\ ~AmountsDiffer(tx1, tx2)
  /\ ~SameTruthyId(tx1, tx2)
  /\ \/ NotCallable(tx1.Bank)
     \/ NotCallable(tx2.Bank)
     \/ /\ ~(isUserBank(tx1.Bank) /\ isUserBank(tx2.Bank))
        /\ \/ NotCallable(tx1.Raw_Message)
           \/ NotCallable(tx2.Raw_Message)
           \/ /\ ~(hasTransferIndicator(tx1.Raw_Message)
                    /\ hasTransferIndicator(tx2.Raw_Message))
              /\ \/ NotCallable(tx1.Recipient_Merchant)
                 \/ NotCallable(tx2.Recipient_Merchant)

\* its value when it returns
isPotentialTransferPair(tx1, tx2) ==
  IF tx1.Debit_Credit = tx2.Debit_Credit THEN FALSE
  ELSE IF AmountsDiffer(tx1, tx2) THEN FALSE
  ELSE IF SameTruthyId(tx1, tx2) THEN TRUE
  ELSE IF isUserBank(tx1.Bank) /\ isUserBank(tx2.Bank) THEN TRUE
  ELSE IF hasTransferIndicator(tx1.Raw_Message)
          /\ hasTransferIndicator(tx2.Raw_Message) THEN TRUE
  ELSE IF hasGenericMerchant(tx1.Recipient_Merchant)
          \/ hasGenericMerchant(tx2.Recipient_Merchant) THEN TRUE
  ELSE FALSE

\* Sign of the comparator new Date(a.Timestamp) - new Date(b.Timestamp);
\* SortCompare reads a NaN result as +0
CompareTimestamps(a, b) ==
  IF ~ValidDate(a.Timestamp) \/ ~ValidDate(b.Timestamp) THEN 0
  ELSE IF a.Timestamp[1] < b.Timestamp[1] THEN -1
  ELSE IF a.Timestamp[1] > b.Timestamp[1] THEN 1
  ELSE 0

\* The comparator is a consistent comparator for the batch (ECMAScript
\* Array.prototype.sort): "equal" is transitive
ConsistentComparator(txs) ==
  \A a, b, c \in DOMAIN txs :
    (CompareTimestamps(txs[a], txs[b]) = 0 /\ CompareTimestamps(txs[b], txs[c]) = 0)
      => CompareTimestamps(txs[a], txs[c]) = 0

IndexPermutations(n) ==
  {p \in [1..n -> 1..n] : \A a, b \in 1..n : a # b => p[a] # p[b]}

\* [...transactions].sort(comparator), as the sequence of the indices in
\* transactions: the stable ascending order for a consistent comparator, and an
\* implementation-defined order otherwise
SortOutcomes(txs) ==
  IF ConsistentComparator(txs)
  THEN {p \in IndexPermutations(Len(txs)) :
          \A k, l \in 1..Len(txs) :
            k < l => \/ CompareTimestamps(txs[p[k]], txs[p[l]]) < 0
                     \/ /\ CompareTimestamps(txs[p[k]], txs[p[l]]) = 0
                        /\ p[k] < p[l]}
  ELSE IndexPermutations(Len(txs))

\* The caller's array after [...transactions].sort(comparator): the sort works
\* on the copy made by the spread, the array itself is left as it was
transactionsAfterSortMutInPlace(txs, order) == [k \in DOMAIN order |-> txs[order[k]]]

transactionsAfterSort(txs, order) == txs

\* pairTime - transactionTime > timeWindowMs (false when either date is NaN)
BeyondWindowMutInclusive(transaction, potentialPair) ==
  /\ ValidDate(transaction.Timestamp)
  /\ ValidDate(potentialPair.Timestamp)
  /\ potentialPair.Timestamp[1] - transaction.Timestamp[1] >= timeWindowMs

BeyondWindow(transaction, potentialPair) ==
  /\ ValidDate(transaction.Timestamp)
  /\ ValidDate(potentialPair.Timestamp)
  /\ potentialPair.Timestamp[1] - transaction.Timestamp[1] > timeWindowMs

\* The inner loop for sortedTransactions[i], from candidate j on: the index of
\* the first match, 0 when the scan ends without one, -1 when it throws
RECURSIVE ScanCandidates(_, _, _, _)
ScanCandidates(sorted, i, j, ids) ==
  IF j > Len(sorted) THEN 0
  ELSE IF BeyondWindow(sorted[i], sorted[j]) THEN 0
  ELSE IF sorted[j].Transaction_ID \in ids THEN ScanCandidates(sorted, i, j + 1, ids)
  ELSE IF isPotentialTransferPairThrows(sorted[i], sorted[j]) THEN -1
  ELSE IF isPotentialTransferPair(sorted[i], sorted[j]) THEN j
  ELSE ScanCandidates(sorted, i, j + 1, ids)

\* transferTransactionIds.add of both sides of a match
AddPairMutFirstOnly(ids, transaction, potentialPair) ==
  ids \cup {transaction.Transaction_ID}

AddPair(ids, transaction, potentialPair) ==
  ids \cup {transaction.Transaction_ID, potentialPair.Transaction_ID}

\* The outer loop from index i on. acc = [ids, matches, threw]: the set built so
\* far, the matches made (pairs of indices in transactions) and whether a
\* TypeError ended the call
RECURSIVE ScanFrom(_, _, _, _)
ScanFrom(sorted, order, i, acc) ==
  IF i > Len(sorted) \/ acc.threw THEN acc
  ELSE IF sorted[i].Transaction_ID \in acc.ids THEN ScanFrom(sorted, order, i + 1, acc)
  ELSE LET j == ScanCandidates(sorted, i, i + 1, acc.ids)
       IN IF j = -1 THEN [acc EXCEPT !.threw = TRUE]
          ELSE IF j = 0 THEN ScanFrom(sorted, order, i + 1, acc)
          ELSE ScanFrom(sorted, order, i + 1,
                 [acc EXCEPT !.ids = AddPair(acc.ids, sorted[i], sorted[j]),
                             !.matches = Append(acc.matches, <<order[i], order[j]>>)])

\* findInternalTransferPairs(transactions) when the sort leaves the batch in the
\* given order: [ids |-> the returned Set, matches, threw]
findInternalTransferPairs(txs, order) ==
  ScanFrom([k \in DOMAIN order |-> txs[order[k]]], order, 1,
           [ids |-> {}, matches |-> <<>>, threw |-> FALSE])

----------------------------------------------------------------------------
(* Classifier: hasExplicitTransferPattern, isInternalTransfer,               *)
(* getTransactionType, isBillPayment                                         *)

\* hasExplicitTransferPattern(transaction) raises a TypeError
hasExplicitTransferPatternThrows(transaction) ==
  \/ NotCallable(transaction.Recipient_Merchant)
  \/ NotCallable(transaction.Category)
  \/ NotCallable(transaction.Raw_Message)
  \/ /\ LowerTrimOrEmpty(transaction.Recipient_Merchant) # StrDebit
     /\ NotCallable(transaction.Transaction_Method)

\* its value when it returns
hasExplicitTransferPattern(transaction) ==
  LET merchant == LowerTrimOrEmpty(transaction.Recipient_Merchant)
      category == LowerOrEmpty(transaction.Category)
      method == LowerOrEmpty(transaction.Transaction_Method)
      rawMessage == LowerOrEmpty(transaction.Raw_Message)
  IN IF merchant = StrDebit
     THEN someIncluded(internalTransferWords, rawMessage)
     ELSE IF method = StrCreditCard THEN TRUE
     ELSE IF someIncluded(creditCardIndicators, rawMessage) THEN TRUE
     ELSE IF merchant = StrPaymentReceived /\ method = StrCreditCard THEN TRUE
     ELSE \/ someIncluded(transferPatterns, merchant)
          \/ someIncluded(transferCategories, category)

\* isInternalTransfer(transaction, allTransactions) raises a TypeError
isInternalTransferThrows(transaction, allTransactions, order) ==
  \/ findInternalTransferPairs(allTransactions, order).threw
  \/ /\ transaction.Debit_Credit # "Debit"
     /\ hasExplicitTransferPatternThrows(transaction)

\* its value when it returns
isInternalTransferMutPatternsForDebit(transaction, allTransactions, order) ==
  \/ transaction.Transaction_ID \in findInternalTransferPairs(allTransactions, order).ids
  \/ hasExplicitTransferPattern(transaction)

isInternalTransfer(transaction, allTransactions, order) ==
  LET transferPairs == findInternalTransferPairs(allTransactions, order).ids
      isInPair == transaction.Transaction_ID \in transferPairs
  IN IF transaction.Debit_Credit = "Debit"
     THEN isInPair
     ELSE isInPair \/ hasExplicitTransferPattern(transaction)

isBillPaymentThrows(transaction) ==
  \/ NotCallable(transaction.Recipient_Merchant)
  \/ NotCallable(transaction.Raw_Message)

isBillPayment(transaction) ==
  LET merchant == LowerOrEmpty(transaction.Recipient_Merchant)
      rawMessage == LowerOrEmpty(transaction.Raw_Message)
  IN \E k \in DOMAIN billPatterns :
       includes(merchant, billPatterns[k]) \/ includes(rawMessage, billPatterns[k])

\* getTransactionType(transaction, allTransactions): the type, or "TypeError"
\* when the call throws
getTransactionTypeMutBillFirst(transaction, allTransactions, order) ==
  IF isInternalTransferThrows(transaction, allTransactions, order) THEN "TypeError"
  ELSE IF isBillPaymentThrows(transaction) THEN "TypeError"
  ELSE IF isBillPayment(transaction) THEN "bill-payment"
  ELSE IF isInternalTransfer(transaction, allTransactions, order) THEN "internal"
  ELSE IF transaction.Debit_Credit = "Credit" THEN "income"
  ELSE IF transaction.Debit_Credit = "Debit" THEN "spending"
  ELSE "unknown"

getTransactionType(transaction, allTransactions, order) ==
  IF isInternalTransferThrows(transaction, allTransactions, order) THEN "TypeError"
  ELSE IF isInternalTransfer(transaction, allTransactions, order) THEN "internal"
  ELSE IF isBillPaymentThrows(transaction) THEN "TypeError"
  ELSE IF isBillPayment(transaction) THEN "bill-payment"
  ELSE IF transaction.Debit_Credit = "Credit" THEN "income"
  ELSE IF transaction.Debit_Credit = "Debit" THEN "spending"
  ELSE "unknown"

\* getPaymentMethod(transaction) raises a TypeError
getPaymentMethodThrows(transaction) == NotCallable(transaction.Transaction_Method)

methodMap ==
  << <<<<"u","p","i">>, <<"U","P","I">>>>,
     <<<<"c","r","e","d","i","t"," ","c","a","r","d">>, <<"C","a","r","d">>>>,
     <<<<"a","c","c","o","u","n","t">>, <<"A","c","c","o","u","n","t">>>>,
     <<<<"n","e","f","t">>, <<"N","E","F","T">>>>,
     <<<<"r","t","g","s">>, <<"R","T","G","S">>>>,
     <<<<"i","m","p","s">>, <<"I","M","P","S">>>>,
     <<<<"a","t","m">>, <<"A","T","M">>>>,
     <<<<"i","n","t","e","r","e","s","t">>, <<"I","n","t","e","r","e","s","t">>>> >>

\* its value when it returns: methodMap[method] || method.toUpperCase() || 'Other'
getPaymentMethod(transaction) ==
  LET method == LowerOrEmpty(transaction.Transaction_Method)
  IN IF \E k \in DOMAIN methodMap : methodMap[k][1] = method
     THEN methodMap[CHOOSE k \in DOMAIN methodMap : methodMap[k][1] = method][2]
     ELSE IF toUpperCase(method) # EmptyString THEN toUpperCase(method)
     ELSE <<"O","t","h","e","r">>

\* The type of getTransactionTags(transaction, allTransactions)
getTransactionTags(transaction, allTransactions, order) ==
  LET type == getTransactionType(transaction, allTransactions, order)
  IN IF type # "TypeError" /\ getPaymentMethodThrows(transaction)
     THEN [type |-> "TypeError"]
     ELSE [type |-> type]

----------------------------------------------------------------------------
(* Override resolver: getCustomTags, getFinalTags, updateTransactionType *)

\* JSON.parse(localStorage.getItem('customTransactionTags') || '{}') throws:
\* the item is not JSON, or access to localStorage is denied
StorageThrows(storage) == DOMAIN storage \subseteq {"SyntaxError", "SecurityError"}

\* The exception it throws
StorageError(storage) == CHOOSE e \in DOMAIN storage : TRUE

\* getCustomTags(transactionId) raises that exception: nothing catches it
getCustomTagsThrows(transactionId, storage) == StorageThrows(storage)

\* getCustomTags(transactionId) with the default apiTags = {}: the entry of the
\* local cache, {} when there is none
getCustomTags(transactionId, storage) ==
  [present |-> TRUE, type |-> storage[transactionId]]

\* The type of getFinalTags(transaction, allTransactions): {...autoTags,
\* ...customTags} with customTags = transaction.CustomTags || getCustomTags(id)
getFinalTagsMutSpreadOrder(transaction, allTransactions, order, storage) ==
  getTransactionTags(transaction, allTransactions, order)

getFinalTags(transaction, allTransactions, order, storage) ==
  LET autoTags == getTransactionTags(transaction, allTransactions, order)
      customTags == IF transaction.CustomTags.present
                    THEN transaction.CustomTags
                    ELSE getCustomTags(transaction.Transaction_ID, storage)
  IN IF autoTags.type = "TypeError" THEN autoTags
     ELSE IF /\ ~transaction.CustomTags.present
             /\ getCustomTagsThrows(transaction.Transaction_ID, storage)
          THEN [type |-> StorageError(storage)]
     ELSE IF customTags.type # "undefined" THEN [type |-> customTags.type]
     ELSE autoTags

\* The local cache after the .catch handler of the background sync: it only
\* warns ("Keep localStorage version")
localStorageAfterSyncFailureMutRollback(storage, transactionId) ==
  [storage EXCEPT ![transactionId] = "undefined"]

localStorageAfterSyncFailure(storage, transactionId) == storage

\* The local cache after updateTransactionType(transactionId, newType)
updateTransactionType(storage, transactionId, newType) ==
  [storage EXCEPT ![transactionId] = newType]

----------------------------------------------------------------------------
(* Aggregator: getActualTransactions and the sums over it *)

\* localTaggedAsInternal: stays false when reading the cache throws (the
\* exception is caught and ignored)
localTaggedAsInternal(transaction, storage) ==
  /\ ~StorageThrows(storage)
  /\ storage[transaction.Transaction_ID] = "internal"

\* The filter callback of getActualTransactions raises a TypeError
keepsActualThrows(transaction, allTransactions, order, storage) ==
  /\ transaction.CustomTags.type # "internal"
  /\ ~localTaggedAsInternal(transaction, storage)
  /\ isInternalTransferThrows(transaction, allTransactions, order)

\* its value when it returns
keepsActualMutManualTagsOnly(transaction, allTransactions, order, storage) ==
  /\ transaction.CustomTags.type # "internal"
  /\ ~localTaggedAsInternal(transaction, storage)

keepsActual(transaction, allTransactions, order, storage) ==
  LET userTaggedAsInternal == transaction.CustomTags.type = "internal"
  IN IF userTaggedAsInternal \/ localTaggedAsInternal(transaction, storage) THEN FALSE
     ELSE ~isInternalTransfer(transaction, allTransactions, order)

\* The filter reaches its fall-back to automatic detection for some record
isInternalTransferCalled(txs, storage) ==
  \E k \in DOMAIN txs :
    /\ txs[k].CustomTags.type # "internal"
    /\ ~localTaggedAsInternal(txs[k], storage)

\* getActualTransactions(transactions) raises a TypeError
getActualTransactionsThrows(txs, order, storage) ==
  \E k \in DOMAIN txs : keepsActualThrows(txs[k], txs, order, storage)

\* The indices in transactions of the records getActualTransactions keeps, in
\* order
RECURSIVE ActualIndicesFrom(_, _, _, _)
ActualIndicesFrom(txs, order, storage, k) ==
  IF k > Len(txs) THEN <<>>
  ELSE IF keepsActual(txs[k], txs, order, storage)
       THEN <<k>> \o ActualIndicesFrom(txs, order, storage, k + 1)
       ELSE ActualIndicesFrom(txs, order, storage, k + 1)

ActualIndices(txs, order, storage) == ActualIndicesFrom(txs, order, storage, 1)

\* getActualTransactions(transactions) when it returns
getActualTransactions(txs, order, storage) ==
  LET kept == ActualIndices(txs, order, storage)
  IN [k \in DOMAIN kept |-> txs[kept[k]]]

\* actual.filter(t => t.Debit_Credit === dc && typeof t.Amount === 'number')
\*       .reduce((sum, t) => sum + t.Amount, 0)
RECURSIVE SumAmounts(_, _)
SumAmounts(actual, dc) ==
  IF actual = <<>> THEN 0
  ELSE (IF Head(actual).Debit_Credit = dc /\ Head(actual).Amount # <<>>
        THEN Head(actual).Amount[1] ELSE 0)
       + SumAmounts(Tail(actual), dc)

\* with the filter left out, every Debit of the batch is summed
getActualSpendingMutUnfiltered(txs, order, storage) == SumAmounts(txs, "Debit")

getActualSpending(txs, order, storage) ==
  SumAmounts(getActualTransactions(txs, order, storage), "Debit")

getActualIncome(txs, order, storage) ==
  SumAmounts(getActualTransactions(txs, order, storage), "Credit")

getActualNetFlowMutSign(txs, order, storage) ==
  getActualSpending(txs, order, storage) - getActualIncome(txs, order, storage)

getActualNetFlow(txs, order, storage) ==
  getActualIncome(txs, order, storage) - getActualSpending(txs, order, storage)

getActualTransactionCount(txs, order, storage) ==
  Len(getActualTransactions(txs, order, storage))

StrUncategorized == <<"U","n","c","a","t","e","g","o","r","i","z","e","d">>

\* transaction.Category || 'Uncategorized'
CategoryOrUncategorized(transaction) ==
  IF transaction.Category = Undefined \/ transaction.Category = EmptyString
  THEN StrUncategorized
  ELSE transaction.Category

\* categoryMap after categoryMap[category] = (categoryMap[category] || 0) +
\* transaction.Amount. A value is <<n>>, or <<>> for NaN (a missing Amount)
AddToCategoryMutOverwrite(categoryMap, transaction) ==
  LET category == CategoryOrUncategorized(transaction)
  IN [c \in DOMAIN categoryMap \cup {category} |->
        IF c = category THEN transaction.Amount ELSE categoryMap[c]]

AddToCategory(categoryMap, transaction) ==
  LET category == CategoryOrUncategorized(transaction)
      current == IF category \in DOMAIN categoryMap /\ categoryMap[category] # <<>>
                 THEN categoryMap[category][1]
                 ELSE 0
  IN [c \in DOMAIN categoryMap \cup {category} |->
        IF c = category
        THEN IF transaction.Amount = <<>> THEN <<>>
             ELSE <<current + transaction.Amount[1]>>
        ELSE categoryMap[c]]

\* actualTransactions.filter(t => t.Debit_Credit === 'Debit').forEach(...)
RECURSIVE CategoryMapFrom(_, _)
CategoryMapFrom(actual, categoryMap) ==
  IF actual = <<>> THEN categoryMap
  ELSE IF Head(actual).Debit_Credit = "Debit"
       THEN CategoryMapFrom(Tail(actual), AddToCategory(categoryMap, Head(actual)))
       ELSE CategoryMapFrom(Tail(actual), categoryMap)

\* The category data of the Reports page for the loaded batch
processedCategoryData(txs, order, storage) ==
  CategoryMapFrom(getActualTransactions(txs, order, storage), <<>>)

\* The transactions of the payment method chart, as indices in the batch:
\* actualTxns.filter(t => t.Debit_Credit === 'Debit' && !isInternalTransfer(t,
\* actualTxns)), where the sort leaves actualTxns in the order actualOrder
RECURSIVE spendingTransactionsFrom(_, _, _, _)
spendingTransactionsFrom(txs, kept, actualOrder, a) ==
  LET actualTxns == [k \in DOMAIN kept |-> txs[kept[k]]]
  IN IF a > Len(kept) THEN <<>>
     ELSE IF /\ actualTxns[a].Debit_Credit = "Debit"
             /\ ~isInternalTransfer(actualTxns[a], actualTxns, actualOrder)
          THEN <<kept[a]>> \o spendingTransactionsFrom(txs, kept, actualOrder, a + 1)
          ELSE spendingTransactionsFrom(txs, kept, actualOrder, a + 1)

\* with the direction test left out, every actual transaction is charted
spendingTransactionsMutAnyDirection(txs, kept, actualOrder) == kept

spendingTransactions(txs, kept, actualOrder) ==
  spendingTransactionsFrom(txs, kept, actualOrder, 1)

\* acc[method] = (acc[method] || 0) + Math.abs(parseFloat(transaction.Amount) || 0)
AddToMethod(acc, transaction) ==
  LET method == getPaymentMethod(transaction)
      current == IF method \in DOMAIN acc THEN acc[method] ELSE 0
      amount == IF transaction.Amount = <<>> THEN 0 ELSE MathAbs(transaction.Amount)[1]
  IN [m \in DOMAIN acc \cup {method} |->
        IF m = method THEN current + amount ELSE acc[m]]

\* spendingTransactions.reduce(..., {})
RECURSIVE methodSpendingFrom(_, _, _)
methodSpendingFrom(txs, spending, acc) ==
  IF spending = <<>> THEN acc
  ELSE methodSpendingFrom(txs, Tail(spending), AddToMethod(acc, txs[Head(spending)]))

MsPerDay == 24 * 60 * 60 * 1000

\* new Date(now.getFullYear(), now.getMonth(), 1), in days since the epoch
\* (MonthStartDays: the days on which January to March 1970 begin)
startOfMonth(now) ==
  LET MonthStartDays == <<0, 31, 59>>
      today == now \div MsPerDay
      m == CHOOSE k \in DOMAIN MonthStartDays :
             /\ MonthStartDays[k] <= today
             /\ \A j \in DOMAIN MonthStartDays :
                  MonthStartDays[j] <= today => MonthStartDays[j] <= MonthStartDays[k]
  IN MonthStartDays[m]

\* transactionDate >= startOfMonth && transactionDate <= now (false for an
\* Invalid Date)
InCurrentMonth(transaction, now) ==
  /\ ValidDate(transaction.Timestamp)
  /\ transaction.Timestamp[1] \div MsPerDay >= startOfMonth(now)
  /\ transaction.Timestamp[1] <= now

\* The indices in txs of the records calculateAdvancedKPIs passes to
\* getActualTransactions
RECURSIVE kpiMonthIndices(_, _, _)
kpiMonthIndices(txs, now, k) ==
  IF k > Len(txs) THEN <<>>
  ELSE IF InCurrentMonth(txs[k], now)
       THEN <<k>> \o kpiMonthIndices(txs, now, k + 1)
       ELSE kpiMonthIndices(txs, now, k + 1)

\* The indices in txs of the records generateCategoryChartData passes to
\* getActualTransactions
RECURSIVE chartMonthIndices(_, _, _)
chartMonthIndices(txs, now, k) ==
  IF k > Len(txs) THEN <<>>
  ELSE IF InCurrentMonth(txs[k], now) /\ txs[k].Debit_Credit = "Debit"
       THEN <<k>> \o chartMonthIndices(txs, now, k + 1)
       ELSE chartMonthIndices(txs, now, k + 1)

\* The records of txs at the indices idx
Selected(txs, idx) == [k \in DOMAIN idx |-> txs[idx[k]]]

\* The indices in txs of the Debits among getActualTransactions(Selected(txs,
\* idx)), as a set
ActualDebitsOf(txs, idx, order, storage) ==
  LET kept == ActualIndices(Selected(txs, idx), order, storage)
  IN {idx[kept[k]] : k \in {j \in DOMAIN kept :
                                txs[idx[kept[j]]].Debit_Credit = "Debit"}}

\* What the five exported functions answer when the argument fails
\* !transactions || !Array.isArray(transactions): [] or 0, without throwing
ActualFunctions ==
  {"getActualTransactions", "getActualSpending", "getActualIncome",
   "getActualNetFlow", "getActualTransactionCount"}

NonArrayResult(function) ==
  [threw |-> FALSE,
   value |-> IF function = "getActualTransactions" THEN <<>> ELSE <<0>>]

----------------------------------------------------------------------------
(* Input batches *)

\* Sample field values
BankHDFC == <<"H","D","F","C"," ","B","a","n","k">>
BankAxisPadded == <<" ","A","x","i","s"," ","B","a","n","k"," ">>
BankOther == <<"S","B","I">>
MerchantBakery == <<"L"," ","J"," ","I","Y","E","N","G","A","R"," ","B","A","K","E","R","Y">>
MerchantCreditCardPayment == <<"C","r","e","d","i","t"," ","C","a","r","d"," ","P","a","y","m","e","n","t">>
MerchantCCPayment == <<"C","C"," ","P","a","y","m","e","n","t"," ","t","o"," ","X","X","1","1","5","0">>
MerchantDebit == <<" ","D","e","b","i","t"," ">>
RawDebitedFrom == <<"R","s"," ","5","0","0"," ","d","e","b","i","t","e","d"," ","f","r","o","m"," ","A","/","c">>
RawPaidFrom == <<"I","N","R"," ","7","1","0",".","0","0"," ","i","s"," ","p","a","i","d"," ","f","r","o","m">>
RawCardLimit == <<"A","v","a","i","l","a","b","l","e"," ","l","i","m","i","t"," ","R","s"," ","9","0","0">>
MerchantElectricityBoard == <<"E","l","e","c","t","r","i","c","i","t","y"," ","B","o","a","r","d">>
RawBill == <<"Y","o","u","r"," ","b","i","l","l"," ","i","s"," ","p","a","i","d">>
MethodUPI == <<"U","P","I">>
MethodCreditCard == <<"C","r","e","d","i","t"," ","C","a","r","d">>
CategoryShopping == <<"S","h","o","p","p","i","n","g">>
CategoryLoanPayment == <<"L","o","a","n"," ","P","a","y","m","e","n","t">>

NoCustomTags == [present |-> FALSE, type |-> "undefined"]
EmptyCustomTags == [present |-> TRUE, type |-> "undefined"]
CustomType(type) == [present |-> TRUE, type |-> type]

\* A record of the sheet as the API returns it
Transaction(ts, dc, amount, bank, merchant, method, raw, category, tags) ==
  [Transaction_ID |-> "undefined", Timestamp |-> ts, Bank |-> bank,
   Amount |-> amount, Debit_Credit |-> dc, Recipient_Merchant |-> merchant,
   Transaction_Method |-> method, Raw_Message |-> raw, Category |-> category,
   CustomTags |-> tags]

\* A transfer leg between the user's own accounts
OwnAccountLeg(ts, dc, tags) ==
  Transaction(ts, dc, <<500>>, BankHDFC, MerchantBakery, MethodUPI, RawPaidFrom,
              CategoryShopping, tags)

TransactionIds == <<"A", "B", "C", "D", "E">>

\* The batch with the k-th record carrying the k-th transaction id
WithDistinctIds(batch) ==
  [k \in DOMAIN batch |-> [batch[k] EXCEPT !.Transaction_ID = TransactionIds[k]]]

\* Batches of at most n records of the pool
Batches(pool, n) == {WithDistinctIds(b) : b \in UNION {[1..k -> pool] : k \in 0..n}}

TagKeys == {TransactionIds[k] : k \in DOMAIN TransactionIds} \cup {"undefined"}

EmptyLocalStorage == [id \in TagKeys |-> "undefined"]

NoApiSync == [id \in TagKeys |-> "none"]

\* The cache cannot be read: the item is not JSON, or getItem is denied
UnavailableStorages ==
  {[e \in {"SyntaxError"} |-> "unparseable"], [e \in {"SecurityError"} |-> "denied"]}

MaxBatch == 3
MaxCandidates == 2
MaxPartners == 1
MaxTagged == 2
MaxLocalTags == 1
MaxShared == 3

\* Own-account legs around the edge of the window, some with an unparseable
\* timestamp
MatcherPool ==
  {OwnAccountLeg(ts, dc, NoCustomTags) :
     ts \in {<<0>>, <<600000>>, <<600001>>, <<>>}, dc \in {"Debit", "Credit"}}

\* Simultaneous records of every direction and amount, each with one of the
\* pairing signals (own bank, transfer wording, generic merchant), with none, or
\* with the three fields missing
HeuristicPool ==
  {Transaction(<<0>>, dc, amount, signal[1], signal[2], MethodUPI, signal[3],
               CategoryShopping, NoCustomTags) :
     dc \in {"Debit", "Credit", "undefined"},
     amount \in {<<500>>, <<-500>>, <<300>>},
     signal \in {<<BankHDFC, MerchantBakery, RawPaidFrom>>,
                 <<BankOther, MerchantBakery, RawDebitedFrom>>,
                 <<BankOther, MerchantDebit, RawPaidFrom>>,
                 <<BankOther, MerchantBakery, RawPaidFrom>>,
                 <<Undefined, Undefined, Undefined>>}}

\* Records with every combination of pattern-bearing fields, and records with
\* one field holding a number
WellTypedPool ==
  {Transaction(<<0>>, dc, <<500>>, BankHDFC, merchant, method, raw, category,
               NoCustomTags) :
     dc \in {"Debit", "Credit", "undefined"},
     merchant \in {MerchantBakery, MerchantCreditCardPayment, MerchantCCPayment,
                   MerchantDebit, Undefined},
     method \in {MethodUPI, MethodCreditCard, Undefined},
     raw \in {RawPaidFrom, RawDebitedFrom, RawCardLimit, Undefined},
     category \in {CategoryShopping, CategoryLoanPayment, Undefined}}

IllTypedPool ==
  LET base(dc) == [OwnAccountLeg(<<0>>, dc, NoCustomTags) EXCEPT !.Bank = BankOther]
  IN UNION {{[base(dc) EXCEPT !.Bank = NumberValue],
             [base(dc) EXCEPT !.Recipient_Merchant = NumberValue],
             [base(dc) EXCEPT !.Transaction_Method = NumberValue],
             [base(dc) EXCEPT !.Raw_Message = NumberValue],
             [base(dc) EXCEPT !.Category = NumberValue]} :
            dc \in {"Debit", "Credit", "undefined"}}

\* Records with and without a bill-payment keyword in the merchant or the
\* message
BillPool ==
  {Transaction(<<0>>, dc, <<500>>, BankHDFC, merchant, MethodUPI, raw,
               CategoryShopping, NoCustomTags) :
     dc \in {"Debit", "Credit", "undefined"},
     merchant \in {MerchantBakery, MerchantElectricityBoard, MerchantCreditCardPayment},
     raw \in {RawPaidFrom, RawBill, Undefined}}

\* Legs on another own account, one minute and eleven minutes later
PartnerPool ==
  {[OwnAccountLeg(ts, dc, NoCustomTags) EXCEPT !.Bank = BankAxisPadded] :
     ts \in {<<60000>>, <<660000>>}, dc \in {"Debit", "Credit"}}

\* One record to classify followed by at most n plain legs
ClassifierBatches(pool, n) ==
  {WithDistinctIds(<<t>> \o b) :
     t \in pool,
     b \in UNION {[1..k -> PartnerPool] : k \in 0..n}}

\* Simultaneous legs with and without a manual tag from the API, and a credit of
\* another amount
TaggedPool ==
  {OwnAccountLeg(<<0>>, dc, tags) :
     dc \in {"Debit", "Credit"},
     tags \in {NoCustomTags, CustomType("internal"), CustomType("income")}}
  \cup {OwnAccountLeg(<<0>>, "Debit", EmptyCustomTags),
        [OwnAccountLeg(<<0>>, "Credit", NoCustomTags) EXCEPT !.Amount = <<300>>]}

\* Own-account legs a minute apart whose Transaction_ID is shared or missing
SharedIdPool ==
  {[OwnAccountLeg(ts, dc, NoCustomTags) EXCEPT !.Transaction_ID = id] :
     ts \in {<<0>>, <<60000>>}, dc \in {"Debit", "Credit"},
     id \in {"A", "B", "undefined"}}

\* Batches of at most n records of the pool, ids as they come
BatchesAsGiven(pool, n) == UNION {[1..k -> pool] : k \in 0..n}

\* Arguments that are not arrays: null, undefined, {} and 'abc'
NonArrayValues == {"null", "undefined", "object", "string"}

\* Own-account legs a minute apart, given in any order, one of them tagged
FramePool ==
  {OwnAccountLeg(ts, dc, NoCustomTags) :
     ts \in {<<0>>, <<60000>>}, dc \in {"Debit", "Credit"}}
  \cup {OwnAccountLeg(<<0>>, "Credit", CustomType("internal"))}

\* Simultaneous own-account debits with and without a category and an amount,
\* and a credit that pairs with the debits of 500
CategoryPool ==
  {[OwnAccountLeg(<<0>>, "Debit", NoCustomTags)
      EXCEPT !.Amount = amount, !.Category = category] :
     amount \in {<<500>>, <<300>>, <<>>},
     category \in {CategoryShopping, Undefined, EmptyString}}
  \cup {OwnAccountLeg(<<0>>, "Credit", NoCustomTags)}

\* Simultaneous legs as loaded before any tag reaches the sheet: without
\* CustomTags or with the empty object of an untagged row, and one tagged row
FeedbackPool ==
  {OwnAccountLeg(<<0>>, dc, tags) :
     dc \in {"Debit", "Credit"}, tags \in {NoCustomTags, EmptyCustomTags}}
  \cup {OwnAccountLeg(<<0>>, "Debit", CustomType("income"))}

\* Own-account legs around the edge of the window, a credit that is a card
\* payment and a debit tagged internal
ActualPool ==
  {OwnAccountLeg(ts, dc, NoCustomTags) :
     ts \in {<<0>>, <<600000>>, <<600001>>}, dc \in {"Debit", "Credit"}}
  \cup {[OwnAccountLeg(<<0>>, "Credit", NoCustomTags)
           EXCEPT !.Transaction_Method = MethodCreditCard],
        OwnAccountLeg(<<0>>, "Debit", CustomType("internal"))}

\* Own-account legs of 500 inside and outside the window, a debit of 300, a
\* debit stored as -500, a credit that is a card payment, a debit tagged internal
NetFlowPool ==
  {OwnAccountLeg(ts, dc, NoCustomTags) :
     ts \in {<<0>>, <<600001>>}, dc \in {"Debit", "Credit"}}
  \cup {[OwnAccountLeg(<<0>>, "Debit", NoCustomTags) EXCEPT !.Amount = <<300>>],
        [OwnAccountLeg(<<0>>, "Debit", NoCustomTags) EXCEPT !.Amount = <<-500>>],
        [OwnAccountLeg(<<0>>, "Credit", NoCustomTags)
           EXCEPT !.Transaction_Method = MethodCreditCard],
        OwnAccountLeg(<<0>>, "Debit", CustomType("internal"))}

\* Own-account legs in the previous month, at the start of the month and a
\* minute into it
CalendarPool ==
  {OwnAccountLeg(ts, dc, NoCustomTags) :
     ts \in {<<-60000>>, <<0>>, <<60000>>}, dc \in {"Debit", "Credit"}}

ManualTypes == {"internal", "income"}

InitWith(batches) ==
  /\ transactions \in batches
  /\ sortedTransactions \in SortOutcomes(transactions)
  /\ localStorage = EmptyLocalStorage
  /\ apiSync = NoApiSync
  /\ called = "none"
  /\ arg = 0
  /\ returned = <<>>

Init == InitWith(Batches(MatcherPool, MaxBatch))

InitHeuristic == InitWith(Batches(HeuristicPool, MaxCandidates))

InitClassifier == InitWith(ClassifierBatches(WellTypedPool, MaxPartners))

InitMalformed ==
  InitWith(ClassifierBatches(WellTypedPool \cup IllTypedPool, MaxPartners))

InitOverride == InitWith(Batches(TaggedPool, MaxTagged))

InitUnavailable ==
  /\ transactions \in Batches(TaggedPool, MaxTagged)
  /\ sortedTransactions \in SortOutcomes(transactions)
  /\ localStorage \in UnavailableStorages
  /\ apiSync = NoApiSync
  /\ called = "none"
  /\ arg = 0
  /\ returned = <<>>

InitFrame == InitWith(Batches(FramePool, MaxTagged))

InitReports == InitWith(Batches(CategoryPool, MaxBatch))

InitBill == InitWith(ClassifierBatches(BillPool, MaxPartners))

InitFeedback == InitWith(Batches(FeedbackPool, MaxTagged))

InitActual == InitWith(Batches(ActualPool, MaxBatch))

InitNetFlow == InitWith(Batches(NetFlowPool, MaxBatch))

InitCalendar == InitWith(Batches(CalendarPool, MaxBatch))

InitSharedIds == InitWith(BatchesAsGiven(SharedIdPool, MaxShared))

----------------------------------------------------------------------------
(* Operations *)

\* No engine function has been called yet on the batch and the cache
Idle == called = "none"

CallFindInternalTransferPairs ==
  /\ Idle
  /\ called' = "findInternalTransferPairs"
  /\ arg' = 0
  /\ returned' = findInternalTransferPairs(transactions, sortedTransactions)
  /\ transactions' = transactionsAfterSort(transactions, sortedTransactions)
  /\ UNCHANGED <<localStorage, sortedTransactions, apiSync>>

CallHasExplicitTransferPattern ==
  \E k \in DOMAIN transactions :
    /\ Idle
    /\ called' = "hasExplicitTransferPattern"
    /\ arg' = k
    /\ returned' =
         [threw |-> hasExplicitTransferPatternThrows(transactions[k]),
          value |-> IF hasExplicitTransferPatternThrows(transactions[k])
                    THEN FALSE
                    ELSE hasExplicitTransferPattern(transactions[k])]
    /\ UNCHANGED <<transactions, localStorage, sortedTransactions, apiSync>>

CallIsInternalTransfer ==
  \E k \in DOMAIN transactions :
    /\ Idle
    /\ called' = "isInternalTransfer"
    /\ arg' = k
    /\ returned' =
         [threw |-> isInternalTransferThrows(transactions[k], transactions, sortedTransactions),
          value |-> IF isInternalTransferThrows(transactions[k], transactions, sortedTransactions)
                    THEN FALSE
                    ELSE isInternalTransfer(transactions[k], transactions, sortedTransactions)]
    /\ transactions' = transactionsAfterSort(transactions, sortedTransactions)
    /\ UNCHANGED <<localStorage, sortedTransactions, apiSync>>

CallGetTransactionType ==
  \E k \in DOMAIN transactions :
    /\ Idle
    /\ called' = "getTransactionType"
    /\ arg' = k
    /\ returned' = getTransactionType(transactions[k], transactions, sortedTransactions)
    /\ transactions' = transactionsAfterSort(transactions, sortedTransactions)
    /\ UNCHANGED <<localStorage, sortedTransactions, apiSync>>

CallGetFinalTags ==
  \E k \in DOMAIN transactions :
    /\ Idle
    /\ called' = "getFinalTags"
    /\ arg' = k
    /\ returned' = getFinalTags(transactions[k], transactions, sortedTransactions, localStorage)
    /\ transactions' = transactionsAfterSort(transactions, sortedTransactions)
    /\ UNCHANGED <<localStorage, sortedTransactions, apiSync>>

CallGetActualTransactions ==
  /\ Idle
  /\ called' = "getActualTransactions"
  /\ arg' = 0
  /\ returned' =
       IF getActualTransactionsThrows(transactions, sortedTransactions, localStorage)
       THEN [threw |-> TRUE, kept |-> <<>>, value |-> <<>>]
       ELSE [threw |-> FALSE,
             kept |-> ActualIndices(transactions, sortedTransactions, localStorage),
             value |-> getActualTransactions(transactions, sortedTransactions, localStorage)]
  /\ transactions' =
       IF isInternalTransferCalled(transactions, localStorage)
       THEN transactionsAfterSort(transactions, sortedTransactions)
       ELSE transactions
  /\ UNCHANGED <<localStorage, sortedTransactions, apiSync>>

\* The summary and the category data of the Reports page for the loaded batch
CalculateSummary ==
  /\ Idle
  /\ called' = "summary"
  /\ arg' = 0
  /\ returned' =
       IF getActualTransactionsThrows(transactions, sortedTransactions, localStorage)
       THEN [threw |-> TRUE, totalSpend |-> 0, totalIncome |-> 0, netFlow |-> 0,
             transactionCount |-> 0, categoryData |-> <<>>]
       ELSE [threw |-> FALSE,
             totalSpend |-> getActualSpending(transactions, sortedTransactions, localStorage),
             totalIncome |-> getActualIncome(transactions, sortedTransactions, localStorage),
             netFlow |-> getActualNetFlow(transactions, sortedTransactions, localStorage),
             transactionCount |->
               getActualTransactionCount(transactions, sortedTransactions, localStorage),
             categoryData |->
               processedCategoryData(transactions, sortedTransactions, localStorage)]
  /\ transactions' =
       IF isInternalTransferCalled(transactions, localStorage)
       THEN transactionsAfterSort(transactions, sortedTransactions)
       ELSE transactions
  /\ UNCHANGED <<localStorage, sortedTransactions, apiSync>>

\* One of the getActual* functions is called with something that is not an array
CallWithNonArray ==
  \E function \in ActualFunctions, value \in NonArrayValues :
    /\ Idle
    /\ called' = "nonArray"
    /\ arg' = 0
    /\ returned' = [function |-> function, input |-> value,
                    threw |-> NonArrayResult(function).threw,
                    value |-> NonArrayResult(function).value]
    /\ UNCHANGED <<transactions, localStorage, sortedTransactions, apiSync>>

\* The Reports page renders the payment method chart for the loaded batch
RenderPaymentMethodChart ==
  \E actualOrder \in
       IF getActualTransactionsThrows(transactions, sortedTransactions, localStorage)
       THEN {<<>>}
       ELSE SortOutcomes(getActualTransactions(transactions, sortedTransactions,
                                               localStorage)) :
    /\ Idle
    /\ called' = "paymentMethodChart"
    /\ arg' = 0
    /\ returned' =
         IF getActualTransactionsThrows(transactions, sortedTransactions, localStorage)
         THEN [threw |-> TRUE, spendingTransactions |-> <<>>, methodSpending |-> <<>>]
         ELSE LET kept == ActualIndices(transactions, sortedTransactions, localStorage)
                  spending == spendingTransactions(transactions, kept, actualOrder)
              IN [threw |-> FALSE,
                  spendingTransactions |-> spending,
                  methodSpending |-> methodSpendingFrom(transactions, spending, <<>>)]
    /\ transactions' =
         IF isInternalTransferCalled(transactions, localStorage)
         THEN transactionsAfterSort(transactions, sortedTransactions)
         ELSE transactions
    /\ UNCHANGED <<localStorage, sortedTransactions, apiSync>>

\* The Calendar page computes the KPIs and the category chart at the instant
\* now, the start of the month or a minute into it
CalculateCalendarViews ==
  \E now \in {0, 60000} :
    LET kpiIdx == kpiMonthIndices(transactions, now, 1)
        chartIdx == chartMonthIndices(transactions, now, 1)
    IN \E kpiOrder \in SortOutcomes(Selected(transactions, kpiIdx)),
          chartOrder \in SortOutcomes(Selected(transactions, chartIdx)) :
         /\ Idle
         /\ called' = "calendarViews"
         /\ arg' = now
         /\ returned' =
              IF \/ getActualTransactionsThrows(Selected(transactions, kpiIdx),
                                                kpiOrder, localStorage)
                 \/ getActualTransactionsThrows(Selected(transactions, chartIdx),
                                                chartOrder, localStorage)
              THEN [threw |-> TRUE, monthlySpending |-> 0, kpiDebits |-> {},
                    chartDebits |-> {}]
              ELSE [threw |-> FALSE,
                    monthlySpending |->
                      SumAmounts(getActualTransactions(Selected(transactions, kpiIdx),
                                                       kpiOrder, localStorage),
                                 "Debit"),
                    kpiDebits |->
                      ActualDebitsOf(transactions, kpiIdx, kpiOrder, localStorage),
                    chartDebits |->
                      ActualDebitsOf(transactions, chartIdx, chartOrder, localStorage)]
         /\ UNCHANGED <<transactions, localStorage, sortedTransactions, apiSync>>

\* The user retags a listed transaction: the local cache is written at once
UpdateTransactionType ==
  \E k \in DOMAIN transactions, newType \in ManualTypes :
    /\ Idle
    /\ \/ localStorage[transactions[k].Transaction_ID] # "undefined"
       \/ Cardinality({id \in TagKeys : localStorage[id] # "undefined"}) < MaxLocalTags
    /\ localStorage' =
         updateTransactionType(localStorage, transactions[k].Transaction_ID, newType)
    /\ apiSync' = [apiSync EXCEPT ![transactions[k].Transaction_ID] = "pending"]
    /\ UNCHANGED <<transactions, sortedTransactions, called, arg, returned>>

\* The background setTransactionTag call of an update fails: a warning is
\* logged
SetTransactionTagFails ==
  \E id \in TagKeys :
    /\ Idle
    /\ apiSync[id] = "pending"
    /\ apiSync' = [apiSync EXCEPT ![id] = "failed"]
    /\ localStorage' = localStorageAfterSyncFailure(localStorage, id)
    /\ UNCHANGED <<transactions, sortedTransactions, called, arg, returned>>

\* It succeeds: the tag is stored in the sheet; the loaded batch is not
\* refreshed
SetTransactionTagSucceeds ==
  \E id \in TagKeys :
    /\ Idle
    /\ apiSync[id] = "pending"
    /\ apiSync' = [apiSync EXCEPT ![id] = "synced"]
    /\ UNCHANGED <<transactions, localStorage, sortedTransactions, called, arg, returned>>

Next == CallFindInternalTransferPairs

Spec == Init /\ [][Next]_vars

SpecHeuristic == InitHeuristic /\ [][Next]_vars

NextClassifier ==
  \/ CallHasExplicitTransferPattern
  \/ CallIsInternalTransfer
  \/ CallGetTransactionType
  \/ CallGetActualTransactions
  \/ CalculateSummary

SpecClassifier == InitClassifier /\ [][NextClassifier]_vars

NextMalformed ==
  \/ CallGetTransactionType
  \/ CallGetActualTransactions

SpecMalformed == InitMalformed /\ [][NextMalformed]_vars

NextOverride ==
  \/ UpdateTransactionType
  \/ CallGetFinalTags
  \/ CallGetActualTransactions
  \/ CalculateSummary

SpecOverride == InitOverride /\ [][NextOverride]_vars

NextCollection ==
  \/ CallWithNonArray
  \/ CallGetActualTransactions
  \/ CalculateSummary

SpecCollection == InitOverride /\ [][NextCollection]_vars

NextUnavailable ==
  \/ CallGetFinalTags
  \/ CallGetActualTransactions

SpecUnavailable == InitUnavailable /\ [][NextUnavailable]_vars

NextFrame ==
  \/ UpdateTransactionType
  \/ CallFindInternalTransferPairs
  \/ CallIsInternalTransfer
  \/ CallGetTransactionType
  \/ CallGetFinalTags
  \/ CallGetActualTransactions
  \/ CalculateSummary

SpecFrame == InitFrame /\ [][NextFrame]_vars

SpecReports == InitReports /\ [][CalculateSummary]_vars

SpecBill == InitBill /\ [][CallIsInternalTransfer \/ CallGetTransactionType]_vars

SpecFeedback ==
  InitFeedback /\ [][\/ UpdateTransactionType
                     \/ SetTransactionTagFails
                     \/ SetTransactionTagSucceeds
                     \/ CallGetFinalTags
                     \/ CallGetActualTransactions]_vars

SpecActual ==
  InitActual /\ [][CallGetActualTransactions \/ RenderPaymentMethodChart]_vars

SpecNetFlow == InitNetFlow /\ [][CalculateSummary]_vars

SpecCalendar == InitCalendar /\ [][CalculateCalendarViews]_vars

NextSharedIds ==
  \/ CallFindInternalTransferPairs
  \/ CallIsInternalTransfer

SpecSharedIds == InitSharedIds /\ [][NextSharedIds]_vars

----------------------------------------------------------------------------
(* Properties of the matcher (specifications Spec, SpecHeuristic) *)

PairSet == findInternalTransferPairs(transactions, sortedTransactions)

AutoType(k) == getTransactionType(transactions[k], transactions, sortedTransactions)

FinalType(k) ==
  getFinalTags(transactions[k], transactions, sortedTransactions, localStorage).type

MatchesMade == {returned.matches[k] : k \in DOMAIN returned.matches}

TimeApart(a, b) ==
  IF a.Timestamp[1] >= b.Timestamp[1]
  THEN a.Timestamp[1] - b.Timestamp[1]
  ELSE b.Timestamp[1] - a.Timestamp[1]

\* C1: a batch of two opposite-direction, equal-amount, heuristic-satisfying
\* transactions is paired at exactly 600000 ms and not paired at 600001 ms or
\* more, and no match is ever made between two validly timestamped
\* transactions more than 10 minutes apart.
C1_WindowBoundary ==
  (called = "findInternalTransferPairs" /\ ~returned.threw) =>
    /\ \A m \in MatchesMade :
         (ValidDate(transactions[m[1]].Timestamp)
            /\ ValidDate(transactions[m[2]].Timestamp))
           => TimeApart(transactions[m[1]], transactions[m[2]]) <= 600000
    /\ (/\ Len(transactions) = 2
        /\ ValidDate(transactions[1].Timestamp)
        /\ ValidDate(transactions[2].Timestamp)
        /\ isPotentialTransferPair(transactions[1], transactions[2]))
         => /\ TimeApart(transactions[1], transactions[2]) = 600000
                 => returned.ids = {transactions[1].Transaction_ID,
                                    transactions[2].Transaction_ID}
            /\ TimeApart(transactions[1], transactions[2]) >= 600001
                 => returned.ids = {}

\* C9: both sides of every match made are in the returned set, and every id in
\* the set is a side of a match whose other side is in the set too.
C9_PairingSymmetry ==
  (called = "findInternalTransferPairs" /\ ~returned.threw) =>
    /\ \A m \in MatchesMade :
         /\ transactions[m[1]].Transaction_ID \in returned.ids
         /\ transactions[m[2]].Transaction_ID \in returned.ids
    /\ \A id \in returned.ids :
         \E m \in MatchesMade :
           /\ id \in {transactions[m[1]].Transaction_ID,
                      transactions[m[2]].Transaction_ID}
           /\ {transactions[m[1]].Transaction_ID,
               transactions[m[2]].Transaction_ID} \subseteq returned.ids

C9_Witness ==
  /\ called = "findInternalTransferPairs"
  /\ Len(transactions) = 3
  /\ Cardinality(MatchesMade) = 1
  /\ Cardinality(returned.ids) = 2

OneDebitOneCredit(a, b) ==
  /\ {a.Debit_Credit, b.Debit_Credit} = {"Debit", "Credit"}
  /\ MathAbs(a.Amount) # <<>>
  /\ MathAbs(a.Amount) = MathAbs(b.Amount)

\* C10: every match made is one Debit and one Credit of equal absolute amount,
\* and isPotentialTransferPair is false for any other two transactions.
C10_OneDebitOneCredit ==
  (called = "findInternalTransferPairs" /\ ~returned.threw) =>
    /\ \A m \in MatchesMade :
         OneDebitOneCredit(transactions[m[1]], transactions[m[2]])
    /\ \A a, b \in DOMAIN transactions :
         (/\ ~isPotentialTransferPairThrows(transactions[a], transactions[b])
          /\ isPotentialTransferPair(transactions[a], transactions[b]))
           => OneDebitOneCredit(transactions[a], transactions[b])

\* a comes before b in ascending timestamp order, ties in input order
Before(a, b) ==
  /\ ValidDate(transactions[a].Timestamp)
  /\ ValidDate(transactions[b].Timestamp)
  /\ \/ transactions[a].Timestamp[1] < transactions[b].Timestamp[1]
     \/ /\ transactions[a].Timestamp[1] = transactions[b].Timestamp[1]
        /\ a < b

\* k was a side of a match made for a transaction that comes before i
PairedBefore(k, i) ==
  \E m \in MatchesMade : k \in {m[1], m[2]} /\ Before(m[1], i)

\* k is a candidate for i: later in the order, within the window, not yet
\* paired when i is processed, and satisfying the heuristic
Eligible(i, k) ==
  /\ Before(i, k)
  /\ transactions[k].Timestamp[1] - transactions[i].Timestamp[1] <= timeWindowMs
  /\ ~PairedBefore(k, i)
  /\ isPotentialTransferPair(transactions[i], transactions[k])

\* C11: every match made is between a transaction and its earliest eligible
\* candidate in ascending timestamp order (ties in input order), a transaction
\* left unmatched had no eligible candidate, and a debit followed by two
\* eligible credits in the window pairs with the first credit only.
C11_GreedyFirstMatch ==
  (called = "findInternalTransferPairs" /\ ~returned.threw) =>
    /\ \A m \in MatchesMade :
         /\ Eligible(m[1], m[2])
         /\ \A k \in DOMAIN transactions : Eligible(m[1], k) => ~Before(k, m[2])
    /\ \A i \in DOMAIN transactions :
         (\A m \in MatchesMade : i \notin {m[1], m[2]})
           => \A k \in DOMAIN transactions : ~Eligible(i, k)
    /\ (/\ Len(transactions) = 3
        /\ transactions[1].Debit_Credit = "Debit"
        /\ transactions[2].Debit_Credit = "Credit"
        /\ transactions[3].Debit_Credit = "Credit"
        /\ Eligible(1, 2)
        /\ Before(2, 3)
        /\ Eligible(1, 3))
         => /\ MatchesMade = {<<1, 2>>}
            /\ returned.ids = {transactions[1].Transaction_ID,
                               transactions[2].Transaction_ID}

\* C12: the id of a transaction whose Timestamp is an Invalid Date is never in
\* the set returned by findInternalTransferPairs.
C12_InvalidTimestampUnpaired ==
  (called = "findInternalTransferPairs" /\ ~returned.threw) =>
    \A k \in DOMAIN transactions :
      ~ValidDate(transactions[k].Timestamp)
        => transactions[k].Transaction_ID \notin returned.ids

\* C23: no match is made between two transactions that are more than the
\* documented 5 minutes apart.
C23_DocumentedWindow ==
  (called = "findInternalTransferPairs" /\ ~returned.threw) =>
    \A m \in MatchesMade :
      (ValidDate(transactions[m[1]].Timestamp)
         /\ ValidDate(transactions[m[2]].Timestamp))
        => TimeApart(transactions[m[1]], transactions[m[2]]) <= documentedTimeWindowMs

\* Every transaction of the batch has an id of its own
UniqueIds ==
  \A a, b \in DOMAIN transactions :
    /\ transactions[a].Transaction_ID # "undefined"
    /\ a # b => transactions[a].Transaction_ID # transactions[b].Transaction_ID

\* C26: no transaction is a side of two matches, and with unique ids the
\* returned set holds two ids per match, the id of a Debit and the id of a
\* Credit.
C26_Matching ==
  (called = "findInternalTransferPairs" /\ ~returned.threw) =>
    /\ \A a, b \in DOMAIN returned.matches :
         a # b => {returned.matches[a][1], returned.matches[a][2]}
                    \cap {returned.matches[b][1], returned.matches[b][2]} = {}
    /\ \A m \in MatchesMade : m[1] # m[2]
    /\ UniqueIds =>
         /\ Cardinality(returned.ids) = 2 * Len(returned.matches)
         /\ \A m \in MatchesMade :
              {transactions[m[1]].Debit_Credit, transactions[m[2]].Debit_Credit}
                = {"Debit", "Credit"}

\* C27: on a batch with valid timestamps, no two transactions whose ids are
\* both outside the returned set are at most 10 minutes apart and a potential
\* transfer pair.
C27_Maximality ==
  (/\ called = "findInternalTransferPairs"
   /\ ~returned.threw
   /\ \A k \in DOMAIN transactions : ValidDate(transactions[k].Timestamp))
    => \A a, b \in DOMAIN transactions :
         (/\ a # b
          /\ transactions[a].Transaction_ID \notin returned.ids
          /\ transactions[b].Transaction_ID \notin returned.ids
          /\ TimeApart(transactions[a], transactions[b]) <= timeWindowMs)
           => ~isPotentialTransferPair(transactions[a], transactions[b])

C27_Witness ==
  /\ called = "findInternalTransferPairs"
  /\ Len(transactions) = 3
  /\ \A k \in DOMAIN transactions : ValidDate(transactions[k].Timestamp)
  /\ returned.ids = {"B", "C"}
  /\ isPotentialTransferPair(transactions[1], transactions[3])
  /\ TimeApart(transactions[1], transactions[3]) > timeWindowMs
  /\ TimeApart(transactions[2], transactions[3]) = timeWindowMs

\* The batch rearranged: the p[k]-th transaction in position k
Reordered(p) == [k \in DOMAIN p |-> transactions[p[k]]]

\* C18: the set of paired ids is the same for every arrangement of the
\* transactions of the batch.
C18_InputOrderIndependent ==
  (called = "findInternalTransferPairs" /\ ~returned.threw) =>
    \A p \in IndexPermutations(Len(transactions)) :
      \A order \in SortOutcomes(Reordered(p)) :
        findInternalTransferPairs(Reordered(p), order).ids = returned.ids

\* k is one of the two sides of a match made on the batch
SideOfMatch(k) ==
  \E m \in DOMAIN PairSet.matches :
    k \in {PairSet.matches[m][1], PairSet.matches[m][2]}

\* C14 (specification SpecSharedIds): with shared or missing ids, a Debit is
\* reported internal by isInternalTransfer exactly when it is itself a side of
\* a match, and the matcher leaves unmatched only transactions that have no
\* eligible candidate.
C14_SharedIdsTolerated ==
  /\ (called = "isInternalTransfer" /\ ~returned.threw
        /\ transactions[arg].Debit_Credit = "Debit")
       => (returned.value <=> SideOfMatch(arg))
  /\ (called = "findInternalTransferPairs" /\ ~returned.threw) =>
       \A i \in DOMAIN transactions :
         (\A m \in MatchesMade : i \notin {m[1], m[2]})
           => \A k \in DOMAIN transactions : ~Eligible(i, k)

----------------------------------------------------------------------------
(* Properties of the classifier (specifications SpecClassifier, SpecMalformed) *)

CardPaymentMerchants == {MerchantCreditCardPayment, MerchantCCPayment}

Unpaired(k) == ~PairSet.threw /\ transactions[k].Transaction_ID \notin PairSet.ids

\* C2: a Debit whose id is not in the pair set is not an internal transfer and
\* is never typed 'internal', and is typed 'bill-payment' when its merchant is
\* 'Credit Card Payment' or 'CC Payment to XX1150'; an unpaired Credit with one
\* of these merchants is typed 'internal'.
C2_DebitCreditAsymmetry ==
  /\ (called = "isInternalTransfer" /\ Unpaired(arg)
        /\ transactions[arg].Debit_Credit = "Debit")
       => (~returned.threw /\ returned.value = FALSE)
  /\ (called = "getTransactionType" /\ Unpaired(arg)) =>
       /\ transactions[arg].Debit_Credit = "Debit" =>
            /\ returned # "internal"
            /\ transactions[arg].Recipient_Merchant \in CardPaymentMerchants
                 => returned = "bill-payment"
       /\ (/\ transactions[arg].Debit_Credit = "Credit"
           /\ transactions[arg].Recipient_Merchant \in CardPaymentMerchants)
            => returned = "internal"

C2_Witness ==
  /\ called = "getTransactionType"
  /\ Len(transactions) = 2
  /\ Unpaired(arg)
  /\ transactions[arg].Debit_Credit = "Debit"
  /\ transactions[arg].Recipient_Merchant = MerchantCCPayment
  /\ transactions[arg].Transaction_Method = MethodCreditCard
  /\ transactions[arg].Category = CategoryLoanPayment
  /\ returned = "bill-payment"

TransactionTypes == {"internal", "bill-payment", "income", "spending", "unknown"}

\* C5: getTransactionType returns one of the five types for every record of
\* every batch, whatever fields are missing or of an unexpected type; it never
\* throws.
C5_Totality ==
  called = "getTransactionType" => returned \in TransactionTypes

Directionless(t) == t.Debit_Credit \notin {"Debit", "Credit"}

\* C13: a transaction whose Debit_Credit is neither 'Debit' nor 'Credit', whose
\* id is not in the pair set and which matches no bill-payment pattern is typed
\* 'unknown', and no such transaction is a side of a match.
C13_DirectionlessUnknown ==
  called = "getTransactionType" =>
    /\ (/\ Directionless(transactions[arg])
        /\ Unpaired(arg)
        /\ ~isBillPayment(transactions[arg]))
         => returned = "unknown"
    /\ \A k \in DOMAIN PairSet.matches :
         /\ ~Directionless(transactions[PairSet.matches[k][1]])
         /\ ~Directionless(transactions[PairSet.matches[k][2]])

\* One of the five conditions listed for an explicit transfer pattern holds
ListedPattern(t) ==
  LET merchant == LowerTrimOrEmpty(t.Recipient_Merchant)
      category == LowerOrEmpty(t.Category)
      method == LowerOrEmpty(t.Transaction_Method)
      rawMessage == LowerOrEmpty(t.Raw_Message)
  IN \/ merchant = StrDebit /\ someIncluded(internalTransferWords, rawMessage)
     \/ method = StrCreditCard
     \/ someIncluded(creditCardIndicators, rawMessage)
     \/ someIncluded(transferPatterns, merchant)
     \/ someIncluded(transferCategories, category)

\* C15: hasExplicitTransferPattern(t) is true exactly when one of the five
\* listed conditions holds; in particular it is true whenever the method is
\* 'credit card'.
C15_ExplicitPatternIff ==
  (called = "hasExplicitTransferPattern" /\ ~returned.threw) =>
    /\ returned.value <=> ListedPattern(transactions[arg])
    /\ LowerOrEmpty(transactions[arg].Transaction_Method) = StrCreditCard
         => returned.value

NoOverrides ==
  /\ localStorage = EmptyLocalStorage
  /\ \A k \in DOMAIN transactions : transactions[k].CustomTags.type = "undefined"

NotInternal(t) == getTransactionType(t, transactions, sortedTransactions) # "internal"

\* C4: with no manual overrides, getActualTransactions keeps exactly the
\* records whose automatic type is not 'internal'; every record whose id is in
\* the pair set is typed 'internal' and counts in none of the sums (a batch of
\* one matched pair gives 0, 0 and 0).
C4_ActualWithoutOverrides ==
  NoOverrides =>
    /\ (called = "getActualTransactions" /\ ~returned.threw) =>
         returned.value = SelectSeq(transactions, NotInternal)
    /\ (called = "getTransactionType"
          /\ ~PairSet.threw
          /\ transactions[arg].Transaction_ID \in PairSet.ids)
         => returned = "internal"
    /\ (called = "summary" /\ ~returned.threw) =>
         /\ returned.totalSpend = SumAmounts(SelectSeq(transactions, NotInternal), "Debit")
         /\ returned.totalIncome = SumAmounts(SelectSeq(transactions, NotInternal), "Credit")
         /\ returned.transactionCount = Len(SelectSeq(transactions, NotInternal))
         /\ (\A k \in DOMAIN transactions : transactions[k].Transaction_ID \in PairSet.ids)
              => /\ returned.totalSpend = 0
                 /\ returned.totalIncome = 0
                 /\ returned.transactionCount = 0

C4_Witness ==
  /\ NoOverrides
  /\ called = "summary"
  /\ Len(transactions) = 2
  /\ PairSet.ids = {"A", "B"}
  /\ returned.totalSpend = 0
  /\ returned.totalIncome = 0
  /\ returned.transactionCount = 0

----------------------------------------------------------------------------
(* Properties of the override resolver and the aggregator (SpecOverride) *)

Kept == {returned.kept[k] : k \in DOMAIN returned.kept}

\* C3: a transaction is in getActualTransactions(batch) if and only if its
\* resolved final type, getFinalTags(t, batch).type, is not 'internal'.
C3_ActualIffFinalNotInternal ==
  (called = "getActualTransactions" /\ ~returned.threw) =>
    \A k \in DOMAIN transactions : (k \in Kept) <=> (FinalType(k) # "internal")

\* C6: a CustomTags.type X on the transaction makes the final type X whatever
\* the automatic type; with no CustomTags type and no local cache entry the
\* final type is the automatic type.
C6_OverrideResolution ==
  called = "getFinalTags" =>
    /\ transactions[arg].CustomTags.type # "undefined"
         => returned.type = transactions[arg].CustomTags.type
    /\ (/\ transactions[arg].CustomTags.type = "undefined"
        /\ localStorage[transactions[arg].Transaction_ID] = "undefined")
         => returned.type = AutoType(arg)

C6_Witness ==
  /\ called = "getFinalTags"
  /\ transactions[arg].CustomTags.type = "income"
  /\ AutoType(arg) = "internal"
  /\ returned.type = "income"

ConflictingOverrides(k) ==
  /\ transactions[k].CustomTags.type # "undefined"
  /\ localStorage[transactions[k].Transaction_ID] # "undefined"
  /\ localStorage[transactions[k].Transaction_ID] # transactions[k].CustomTags.type

\* C7: when CustomTags has a type and the local cache holds a different type
\* for the same id, CustomTags decides the final type and whether
\* getActualTransactions keeps the transaction.
C7_PrimaryOverrideWins ==
  /\ (called = "getFinalTags" /\ ConflictingOverrides(arg))
       => returned.type = transactions[arg].CustomTags.type
  /\ (called = "getActualTransactions" /\ ~returned.threw) =>
       \A k \in DOMAIN transactions :
         ConflictingOverrides(k) =>
           ((k \in Kept) <=> (transactions[k].CustomTags.type # "internal"))

\* C8: for a fixed batch and override state, net flow is income minus spending
\* and the count is the length of getActualTransactions(batch).
C8_AggregationConsistency ==
  (called = "summary" /\ ~returned.threw) =>
    /\ returned.netFlow = returned.totalIncome - returned.totalSpend
    /\ returned.transactionCount =
         Len(getActualTransactions(transactions, sortedTransactions, localStorage))

C8_Witness ==
  /\ called = "summary"
  /\ localStorage # EmptyLocalStorage
  /\ returned.totalIncome = 300
  /\ returned.totalSpend = 500
  /\ returned.netFlow = -200
  /\ returned.transactionCount = 2

----------------------------------------------------------------------------
(* Failure handling (specifications SpecCollection, SpecUnavailable) *)

\* C16: a call of getActualTransactions, getActualSpending, getActualIncome,
\* getActualNetFlow or getActualTransactionCount with an argument that is not
\* an array fails; it does not return a result.
C16_NonArrayFails ==
  called = "nonArray" => returned.threw

\* The transaction carries no manual type and is not automatically internal
KeptAutomatically(k) ==
  /\ transactions[k].CustomTags.type # "internal"
  /\ AutoType(k) # "internal"

\* C17: when the local cache cannot be read, getFinalTags and
\* getActualTransactions both return: the first gives the automatic type of a
\* transaction that carries no CustomTags type, the second keeps the
\* transactions that are neither tagged internal by CustomTags nor
\* automatically internal.
C17_StorageUnavailable ==
  StorageThrows(localStorage) =>
    /\ called = "getFinalTags" =>
         /\ returned.type \in TransactionTypes \cup ManualTypes
         /\ transactions[arg].CustomTags.type = "undefined"
              => returned.type = AutoType(arg)
    /\ called = "getActualTransactions" =>
         /\ ~returned.threw
         /\ \A k \in DOMAIN transactions : (k \in Kept) <=> KeptAutomatically(k)

----------------------------------------------------------------------------
(* Frame of the engine functions (specification SpecFrame) *)

\* C19: a call of findInternalTransferPairs, isInternalTransfer,
\* getTransactionType, getFinalTags, getActualTransactions or the getActual*
\* sums leaves the caller's batch as it was, element for element and field for
\* field, and leaves the local override cache as it was.
C19_InputsNotMutated ==
  [][(called = "none" /\ called' # "none")
       => (transactions' = transactions /\ localStorage' = localStorage)]_vars

C19_Witness ==
  /\ called = "getActualTransactions"
  /\ sortedTransactions = <<2, 1>>
  /\ transactions[1].Timestamp = <<60000>>
  /\ transactions[2].Timestamp = <<0>>
  /\ localStorage # EmptyLocalStorage
  /\ returned.kept = <<1>>

----------------------------------------------------------------------------
(* Category breakdown of the Reports page (specification SpecReports) *)

\* The Debit transactions that getActualTransactions keeps, as indices
ActualDebits ==
  {k \in DOMAIN transactions :
     /\ transactions[k].Debit_Credit = "Debit"
     /\ \E a \in DOMAIN ActualIndices(transactions, sortedTransactions, localStorage) :
          ActualIndices(transactions, sortedTransactions, localStorage)[a] = k}

\* The group of a transaction: its Category, 'Uncategorized' when it has none
GroupOf(k) ==
  IF transactions[k].Category \in {Undefined, EmptyString}
  THEN StrUncategorized
  ELSE transactions[k].Category

RECURSIVE TotalAmount(_)
TotalAmount(indices) ==
  IF indices = {} THEN 0
  ELSE LET k == CHOOSE k \in indices : TRUE
       IN transactions[k].Amount[1] + TotalAmount(indices \ {k})

RECURSIVE TotalOfGroups(_, _)
TotalOfGroups(categoryData, groups) ==
  IF groups = {} THEN 0
  ELSE LET g == CHOOSE g \in groups : TRUE
       IN categoryData[g][1] + TotalOfGroups(categoryData, groups \ {g})

\* C20: the groups of the category breakdown are the groups of the actual
\* Debits, and when every Amount is a number each group's amount is the sum of
\* the actual Debits of that group and the groups add up to the actual
\* spending.
C20_CategoryPartition ==
  (called = "summary" /\ ~returned.threw) =>
    /\ DOMAIN returned.categoryData = {GroupOf(k) : k \in ActualDebits}
    /\ (\A k \in DOMAIN transactions : transactions[k].Amount # <<>>) =>
         /\ \A g \in DOMAIN returned.categoryData :
              returned.categoryData[g] =
                <<TotalAmount({k \in ActualDebits : GroupOf(k) = g})>>
         /\ TotalOfGroups(returned.categoryData, DOMAIN returned.categoryData)
              = returned.totalSpend

C20_Witness ==
  /\ called = "summary"
  /\ Len(transactions) = 3
  /\ DOMAIN returned.categoryData = {CategoryShopping, StrUncategorized}
  /\ returned.categoryData[CategoryShopping] = <<500>>
  /\ returned.categoryData[StrUncategorized] = <<600>>
  /\ returned.totalSpend = 1100

----------------------------------------------------------------------------
(* Rule order of the classifier (specification SpecBill) *)

\* What isInternalTransfer reports for the k-th transaction of the batch
ReportedInternal(k) ==
  isInternalTransfer(transactions[k], transactions, sortedTransactions)

\* The merchant or the message holds a bill-payment keyword
BillKeyword(k) ==
  \E b \in DOMAIN billPatterns :
    \/ includes(LowerOrEmpty(transactions[k].Recipient_Merchant), billPatterns[b])
    \/ includes(LowerOrEmpty(transactions[k].Raw_Message), billPatterns[b])

\* C21: a transaction reported internal is typed 'internal' even with a
\* bill-payment keyword; one that is not internal and has a bill-payment keyword
\* is typed 'bill-payment' whatever its direction; only then a Credit is typed
\* 'income' and a Debit 'spending'.
C21_RuleOrder ==
  called = "getTransactionType" =>
    /\ ReportedInternal(arg) => returned = "internal"
    /\ (~ReportedInternal(arg) /\ BillKeyword(arg)) => returned = "bill-payment"
    /\ (~ReportedInternal(arg) /\ ~BillKeyword(arg)) =>
         /\ transactions[arg].Debit_Credit = "Credit" => returned = "income"
         /\ transactions[arg].Debit_Credit = "Debit" => returned = "spending"

C21_Witness ==
  /\ called = "getTransactionType"
  /\ transactions[arg].Debit_Credit = "Debit"
  /\ transactions[arg].Recipient_Merchant = MerchantElectricityBoard
  /\ transactions[arg].Raw_Message = RawBill
  /\ transactions[arg].Transaction_ID \in PairSet.ids
  /\ returned = "internal"

\* C22: getTransactionType returns 'bill-payment' only for a Debit, and a
\* Credit that is not internal is typed 'income'.
C22_BillPaymentOnlyDebit ==
  called = "getTransactionType" =>
    /\ returned = "bill-payment" => transactions[arg].Debit_Credit = "Debit"
    /\ (transactions[arg].Debit_Credit = "Credit" /\ ~ReportedInternal(arg))
         => returned = "income"

----------------------------------------------------------------------------
(* Optimistic updates (specification SpecFeedback) *)

\* C24: while the local cache holds 'internal' for an id, getActualTransactions
\* excludes the transactions with that id whatever their CustomTags; an entry
\* written by updateTransactionType stays in the cache whatever becomes of the
\* background call, and a failure of that call leaves the cache as it was.
C24_ImmediateFeedback ==
  /\ [](\A id \in TagKeys : apiSync[id] # "none" => localStorage[id] # "undefined")
  /\ []((called = "getActualTransactions" /\ ~returned.threw) =>
          \A k \in DOMAIN transactions :
            localStorage[transactions[k].Transaction_ID] = "internal" => k \notin Kept)
  /\ [][(\E id \in TagKeys : apiSync[id] = "pending" /\ apiSync'[id] = "failed")
          => localStorage' = localStorage]_vars

C24_Witness ==
  /\ called = "getActualTransactions"
  /\ Len(transactions) = 1
  /\ transactions[1].CustomTags.type = "undefined"
  /\ AutoType(1) = "spending"
  /\ apiSync["A"] = "failed"
  /\ localStorage["A"] = "internal"
  /\ returned.kept = <<>>

\* C25: when the transaction carries no CustomTags type (the field is absent or
\* is the empty object) and the local cache holds a type for its id,
\* getFinalTags returns that type.
C25_LocalCacheFallback ==
  (/\ called = "getFinalTags"
   /\ transactions[arg].CustomTags.type = "undefined"
   /\ localStorage[transactions[arg].Transaction_ID] # "undefined")
    => returned.type = localStorage[transactions[arg].Transaction_ID]

----------------------------------------------------------------------------
(* Filtering twice (specification SpecActual) *)

AllTimestampsValid ==
  \A k \in DOMAIN transactions : ValidDate(transactions[k].Timestamp)

\* The indices of the Debits among the records getActualTransactions keeps
ActualDebitIndices ==
  SelectSeq(ActualIndices(transactions, sortedTransactions, localStorage),
            LAMBDA k : transactions[k].Debit_Credit = "Debit")

\* C28: on a batch with valid timestamps, getActualTransactions applied to its
\* own result returns that result, isInternalTransfer against the filtered list
\* is false for every transaction of it, and the payment method chart covers
\* exactly the actual Debits.
C28_FilterIdempotent ==
  AllTimestampsValid =>
    /\ (called = "getActualTransactions" /\ ~returned.threw) =>
         \A actualOrder \in SortOutcomes(returned.value) :
           /\ getActualTransactions(returned.value, actualOrder, localStorage)
                = returned.value
           /\ \A a \in DOMAIN returned.value :
                ~isInternalTransfer(returned.value[a], returned.value, actualOrder)
    /\ (called = "paymentMethodChart" /\ ~returned.threw) =>
         returned.spendingTransactions = ActualDebitIndices

C28_Witness ==
  /\ called = "paymentMethodChart"
  /\ Len(transactions) = 3
  /\ PairSet.ids = {"A", "B"}
  /\ returned.spendingTransactions = <<3>>
  /\ DOMAIN returned.methodSpending = {MethodUPI}

----------------------------------------------------------------------------
(* Net flow (specification SpecNetFlow) *)

NonNegativeAmounts ==
  \A k \in DOMAIN transactions :
    transactions[k].Amount # <<>> /\ transactions[k].Amount[1] >= 0

OnlyDebitCredit ==
  \A k \in DOMAIN transactions : transactions[k].Debit_Credit \in {"Debit", "Credit"}

NoUnpairedPatternCredit ==
  \A k \in DOMAIN transactions :
    (/\ transactions[k].Debit_Credit = "Credit"
     /\ hasExplicitTransferPattern(transactions[k]))
      => transactions[k].Transaction_ID \in PairSet.ids

\* C29: for a batch with unique non-empty ids, valid timestamps, non-negative
\* numeric amounts, only Debit and Credit directions, no manual overrides and no
\* unpaired Credit with an explicit transfer pattern, getActualNetFlow is the
\* sum of all Credit amounts minus the sum of all Debit amounts of the batch.
C29_NetFlowPreserved ==
  (/\ called = "summary"
   /\ ~returned.threw
   /\ UniqueIds
   /\ AllTimestampsValid
   /\ NonNegativeAmounts
   /\ OnlyDebitCredit
   /\ NoOverrides
   /\ NoUnpairedPatternCredit)
    => returned.netFlow
         = SumAmounts(transactions, "Credit") - SumAmounts(transactions, "Debit")

C29_Witness ==
  /\ called = "summary"
  /\ UniqueIds /\ AllTimestampsValid /\ NonNegativeAmounts
  /\ OnlyDebitCredit /\ NoOverrides /\ NoUnpairedPatternCredit
  /\ \E k \in DOMAIN transactions :
       /\ hasExplicitTransferPattern(transactions[k])
       /\ transactions[k].Transaction_ID \in PairSet.ids
  /\ Cardinality(PairSet.ids) = 2
  /\ returned.netFlow = -300

----------------------------------------------------------------------------
(* The two views of the Calendar page (specification SpecCalendar) *)

\* C30: for the same transactions and the same now, the Debits summed by
\* generateCategoryChartData are the Debits summed into monthlySpending by
\* calculateAdvancedKPIs.
C30_CalendarViewsAgree ==
  (called = "calendarViews" /\ ~returned.threw)
    => returned.chartDebits = returned.kpiDebits
====
